---- MODULE Spec2Model ----
(***************************************************************************)
(* Model of mastering.py: AudiobookProcessor and main().                   *)
(*                                                                         *)
(* The external collaborators (ffprobe, ffmpeg, eyed3, the filesystem and  *)
(* the user's answers at the prompts) are the environment: every call to   *)
(* one of them is a nondeterministic choice over the outcomes the code     *)
(* distinguishes (exit status, parseable or unparseable output).           *)
(***************************************************************************)
EXTENDS Naturals, Integers, Sequences, FiniteSets, TLC

(***************************************************************************)
(* Bounds of the model.                                                    *)
(***************************************************************************)
\* Largest number of audio files in the directory the user names.
MaxFiles == 2
\* Largest number of failed or unparseable probe calls in one run.
MaxProbeFaults == 1

(***************************************************************************)
(* self.audio_requirements (the entries the code reads).                   *)
(***************************************************************************)
min_bitrate == 192
sample_rate == 44100
max_duration == 120

\* Text printed by a probe that has no value for the entry ("N/A", "").
NA == -1

(***************************************************************************)
(* Characters and filename stems.  A stem is a sequence of characters.     *)
(***************************************************************************)
UpperCase == <<"A","B","C","D","E","F","G","H","I","J","K","L","M","N","O","P","Q","R","S","T","U","V","W","X","Y","Z">>
LowerCase == <<"a","b","c","d","e","f","g","h","i","j","k","l","m","n","o","p","q","r","s","t","u","v","w","x","y","z">>
Digits == {"0","1","2","3","4","5","6","7","8","9"}

Range(s) == { s[k] : k \in DOMAIN s }

\* str.lower() on one character.
Lower(c) ==
  IF \E k \in DOMAIN UpperCase : UpperCase[k] = c
  THEN LowerCase[CHOOSE k \in DOMAIN UpperCase : UpperCase[k] = c]
  ELSE c

LowerStr(s) == [k \in DOMAIN s |-> Lower(s[k])]

\* The character class [a-zA-Z0-9_\- ].
AllowedChar(c) ==
  \/ c \in Range(UpperCase)
  \/ c \in Range(LowerCase)
  \/ c \in Digits
  \/ c \in {"_", "-", " "}

\* re.match(r'^[a-zA-Z0-9_\- ]+$', stem): one or more allowed characters up
\* to the end of the string, where $ also matches before a final newline.
FilenameMatches(stem) ==
  \/ /\ Len(stem) >= 1
     /\ \A k \in DOMAIN stem : AllowedChar(stem[k])
  \/ /\ Len(stem) >= 2
     /\ stem[Len(stem)] = "\n"
     /\ \A k \in 1..(Len(stem) - 1) : AllowedChar(stem[k])

\* Python's  sub in s  on sequences of characters.
Contains(s, sub) ==
  \E k \in 0..(Len(s) - Len(sub)) :
     \A j \in 1..Len(sub) : s[k + j] = sub[j]

chapter_indicators ==
  { <<"c","h","a","p","t","e","r">>,
    <<"c","h">>,
    <<"s","e","c","t","i","o","n">>,
    <<"p","a","r","t">>,
    <<"p","r","o","l","o","g","u","e">>,
    <<"e","p","i","l","o","g","u","e">>,
    <<"i","n","t","r","o","d","u","c","t","i","o","n">>,
    <<"f","o","r","e","w","o","r","d">>,
    <<"a","f","t","e","r","w","o","r","d">>,
    <<"a","p","p","e","n","d","i","x">>,
    <<"c","r","e","d","i","t","s">>,
    <<"a","c","k","n","o","w","l","e","d","g","m","e","n","t","s">>,
    <<"t","i","t","l","e">>,
    <<"d","e","d","i","c","a","t","i","o","n">> }

has_chapter_indicator(stem) ==
  \E ind \in chapter_indicators : Contains(LowerStr(stem), ind)

HasDigit(stem) == \E k \in DOMAIN stem : stem[k] \in Digits

(***************************************************************************)
(* The files the user's directory may hold.  Each record gives what the    *)
(* external tools report for the file when they succeed: the channel count *)
(* and the stream entries of ffprobe, and the MPEG mode eyed3 reads ("" if *)
(* eyed3 cannot load the file).                                            *)
(***************************************************************************)
Ch1Wav ==
  [stem |-> <<"0","1","_","C","h","a","p","t","e","r","_","1">>, ext |-> "wav",
   channels |-> 2, mode |-> "", seconds |-> 600, bps |-> 128000, hz |-> 48000]
Ch2Mp3 ==
  [stem |-> <<"0","2","_","C","h","a","p","t","e","r","_","2">>, ext |-> "mp3",
   channels |-> 1, mode |-> "Mono", seconds |-> 900, bps |-> 256000, hz |-> 44100]
TrackMp3 ==
  [stem |-> <<"t","r","a","c","k">>, ext |-> "mp3",
   channels |-> 2, mode |-> "Stereo", seconds |-> 7260, bps |-> 191999, hz |-> 44100]
OneMp3 ==
  [stem |-> <<"0","1">>, ext |-> "mp3",
   channels |-> 2, mode |-> "Joint stereo", seconds |-> 7200, bps |-> 192000, hz |-> 44100]
OneWav ==
  [stem |-> <<"0","1">>, ext |-> "wav",
   channels |-> 1, mode |-> "", seconds |-> 60, bps |-> 705600, hz |-> 44100]
HashMp3 ==
  [stem |-> <<"a","#">>, ext |-> "mp3",
   channels |-> 1, mode |-> "Mono", seconds |-> 120, bps |-> 64000, hz |-> 22050]

Catalogue == {Ch1Wav, Ch2Mp3, TrackMp3, OneMp3, OneWav, HashMp3}

\* A path: the directory ("in" the user's directory, "out" the _master
\* directory), the stem and the extension.
PathOf(dir, f) == [dir |-> dir, stem |-> f.stem, ext |-> f.ext]

\* The file a path names: a file of the user's directory or a file the
\* encoder has written to the output directory.
FileAt(path, dirFiles, outFiles) ==
  CHOOSE f \in (IF path.dir = "in" THEN dirFiles ELSE outFiles) :
     f.stem = path.stem /\ f.ext = path.ext

(***************************************************************************)
(* Probe outcomes.  A probe is one ffprobe process: its exit status and    *)
(* the value it printed (NA when the text is not a number).                *)
(***************************************************************************)
ProbeOutcomes(v) ==
  { [rc |-> 0, out |-> v], [rc |-> 0, out |-> NA], [rc |-> 1, out |-> NA] }

ProbeFault(p) == IF p.rc # 0 \/ p.out = NA THEN 1 ELSE 0

\* How get_audio_channel_format obtains its answer.
ChannelOutcomes == {"ffprobe", "eyed3_mode", "eyed3_none", "eyed3_error"}

ChannelFault(c) == IF c = "ffprobe" THEN 0 ELSE 1

get_audio_channel_format(f, c) ==
  CASE c = "ffprobe"    -> IF f.channels > 1 THEN "stereo" ELSE "mono"
    [] c = "eyed3_mode" -> IF f.mode = "Stereo" THEN "stereo" ELSE "mono"
    [] OTHER            -> "mono"

(***************************************************************************)
(* Issue strings and console messages.                                     *)
(***************************************************************************)
MsgSpecialChars == "Filename contains special characters. Use only standard US alphabetical/numeric characters."
MsgNoChapter == "Filename does not appear to include chapter or section information (e.g., 'Chapter 1', 'Prologue')"
MsgWav == "WAV format needs conversion to MP3"
MsgNormalize == "Audio levels need to be checked and normalized"
MsgNoFilesFound == "No MP3 or WAV files found in the specified directory. Please try again."
MsgNoDirectory == "Directory does not exist. Please try again."
MsgNotAnalyzed == "No audio files have been analyzed."

TwoDigits(n) == IF n < 10 THEN "0" \o ToString(n) ELSE ToString(n)

\* f"{duration_seconds / 60:.2f}" for a whole number of seconds: the value
\* in hundredths of a minute is seconds * 5 / 3, which is never a tie.
FormatMinutes(seconds) ==
  LET h == (10 * seconds + 3) \div 6
  IN  ToString(h \div 100) \o "." \o TwoDigits(h % 100)

MsgDuration(seconds) ==
  "File duration (" \o FormatMinutes(seconds)
    \o " minutes) exceeds maximum allowed length (120 minutes). "
    \o "Split longer sections into separate files and include a secondary header for continuity."

MsgBitrate(bitrate) ==
  "Bitrate is " \o ToString(bitrate) \o "kbps, must be at least "
    \o ToString(min_bitrate) \o "kbps CBR"

MsgSampleRate(rate) ==
  "Sample rate is " \o ToString(rate) \o "Hz, must be "
    \o ToString(sample_rate) \o "Hz"

MsgChannel(current, target) ==
  "Channel format: " \o current \o ", needs conversion to " \o target

MsgError(e) == "Error analyzing file: " \o e

\* str(e) of the exceptions the probes of analyze_audio_file raise.
ErrExit(what) == "ffprobe " \o what \o " returned non-zero exit status 1."
ErrFloat == "could not convert string to float"

(***************************************************************************)
(* analyze_audio_file.  A result is the dictionary `results`: `keys` holds *)
(* the optional entries that were stored.                                  *)
(***************************************************************************)
NewResults(path) ==
  [filename |-> [stem |-> path.stem, ext |-> path.ext],
   issues |-> <<>>, compliant |-> TRUE, keys |-> {},
   duration_seconds |-> 0, bitrate |-> 0, sample_rate |-> 0,
   channels |-> "", file_format |-> ""]

\* AddIssue without the assignment to results['compliant'].
AddIssue_KeepsVerdict(results, issue) ==
  [results EXCEPT !.issues = Append(@, issue)]

\* results['issues'].append(issue); results['compliant'] = False
AddIssue(results, issue) ==
  [results EXCEPT !.issues = Append(@, issue), !.compliant = FALSE]

\* CheckFilename with the chapter check ahead of the character check.
CheckFilename_ChapterFirst(results, stem) ==
  LET r1 == IF ~has_chapter_indicator(stem) /\ ~HasDigit(stem)
            THEN AddIssue(results, MsgNoChapter) ELSE results
  IN  IF ~FilenameMatches(stem)
      THEN AddIssue(r1, MsgSpecialChars) ELSE r1

\* The two filename checks.
CheckFilename(results, stem) ==
  LET r1 == IF ~FilenameMatches(stem)
            THEN AddIssue(results, MsgSpecialChars) ELSE results
  IN  IF ~has_chapter_indicator(stem) /\ ~HasDigit(stem)
      THEN AddIssue(r1, MsgNoChapter) ELSE r1

\* duration_minutes > max_duration, on the probed seconds.
DurationTooLong(seconds) == seconds > max_duration * 60

\* BitrateTooLow with <= in place of <.
BitrateTooLow_Inclusive(bitrate) == bitrate <= min_bitrate

\* bitrate < min_bitrate
BitrateTooLow(bitrate) == bitrate < min_bitrate

\* sample_rate != required sample rate
SampleRateWrong(rate) == rate # sample_rate

\* int(stdout.strip()) // 1000, or 0 on ValueError.
ParseBitrate(out) == IF out = NA THEN 0 ELSE out \div 1000

\* int(stdout.strip()), or 0 on ValueError.
ParseSampleRate(out) == IF out = NA THEN 0 ELSE out

\* CheckFormatAndLevels without the normalization flag.
CheckFormatAndLevels_NoNormalization(results, path, layout) ==
  LET r1 == [results EXCEPT !.channels = layout, !.keys = @ \cup {"channels"}]
  IN  IF path.ext = "wav"
      THEN AddIssue([r1 EXCEPT !.file_format = "wav",
                               !.keys = @ \cup {"file_format"}], MsgWav)
      ELSE r1

\* The tail of the try block: channel format, WAV flag, normalization flag.
CheckFormatAndLevels(results, path, layout) ==
  LET r1 == [results EXCEPT !.channels = layout, !.keys = @ \cup {"channels"}]
      r2 == IF path.ext = "wav"
            THEN AddIssue([r1 EXCEPT !.file_format = "wav",
                                     !.keys = @ \cup {"file_format"}], MsgWav)
            ELSE r1
  IN  AddIssue(r2, MsgNormalize)

\* The sample-rate probe and check, then the tail.
CheckSampleRate(results, path, s, layout) ==
  IF s.rc # 0
  THEN AddIssue(results, MsgError(ErrExit("sample_rate")))
  ELSE LET rate == ParseSampleRate(s.out)
           r1 == [results EXCEPT !.sample_rate = rate,
                                 !.keys = @ \cup {"sample_rate"}]
           r2 == IF SampleRateWrong(rate)
                 THEN AddIssue(r1, MsgSampleRate(rate)) ELSE r1
       IN  CheckFormatAndLevels(r2, path, layout)

\* The bitrate probe and check, then the rest.
CheckBitrate(results, path, b, s, layout) ==
  IF b.rc # 0
  THEN AddIssue(results, MsgError(ErrExit("bit_rate")))
  ELSE LET bitrate == ParseBitrate(b.out)
           r1 == [results EXCEPT !.bitrate = bitrate,
                                 !.keys = @ \cup {"bitrate"}]
           r2 == IF BitrateTooLow(bitrate)
                 THEN AddIssue(r1, MsgBitrate(bitrate)) ELSE r1
       IN  CheckSampleRate(r2, path, s, layout)

\* The try block: duration probe and check, then the rest; any exception
\* leaves through the except clause.
CheckProbes(results, path, d, b, s, layout) ==
  IF d.rc # 0
  THEN AddIssue(results, MsgError(ErrExit("duration")))
  ELSE IF d.out = NA
  THEN AddIssue(results, MsgError(ErrFloat))
  ELSE LET r1 == [results EXCEPT !.duration_seconds = d.out,
                                 !.keys = @ \cup {"duration_minutes"}]
           r2 == IF DurationTooLong(d.out)
                 THEN AddIssue(r1, MsgDuration(d.out)) ELSE r1
       IN  CheckBitrate(r2, path, b, s, layout)

\* analyze_audio_file(file_path), given the outcomes of its four probes:
\* d, b, s the ffprobe calls for duration, bit rate and sample rate, and
\* layout the answer of get_audio_channel_format.
analyze_audio_file(path, d, b, s, layout) ==
  CheckProbes(CheckFilename(NewResults(path), path.stem), path, d, b, s, layout)

(***************************************************************************)
(* self.reports: a dictionary from path to results, in insertion order.    *)
(***************************************************************************)
HasKey(dict, path) == \E k \in DOMAIN dict : dict[k].path = path

KeyIndex(dict, path) == CHOOSE k \in DOMAIN dict : dict[k].path = path

\* dict[path] = results: a new key goes to the end, an existing key keeps
\* its place and gets the new value.
DictSet(dict, path, results) ==
  IF HasKey(dict, path)
  THEN [dict EXCEPT ![KeyIndex(dict, path)] = [path |-> path, results |-> results]]
  ELSE Append(dict, [path |-> path, results |-> results])

DictGet(dict, path) == dict[KeyIndex(dict, path)].results

\* All orders in which glob may list a set of files.
Listings(files) ==
  { l \in [1..Cardinality(files) -> files] :
       \A a, b \in 1..Cardinality(files) : a # b => l[a] # l[b] }

PathsOf(dir, listing) == [k \in DOMAIN listing |-> PathOf(dir, listing[k])]

\* The directories the user may name that exist.
Directories == { D \in SUBSET Catalogue : Cardinality(D) <= MaxFiles }

\* The None that process_audio returns for the output path.
NoPath == [dir |-> "", stem |-> <<>>, ext |-> ""]

\* The number of reports marked compliant, and the rest.
compliant_count(R) ==
  Cardinality({k \in DOMAIN R : R[k].results.compliant})

non_compliant_count(R) == Len(R) - compliant_count(R)

\* The count lines of the analysis summary.
SummaryText(total, compliant, non_compliant) ==
  "Total files analyzed: " \o ToString(total)
  \o "\nCompliant files: " \o ToString(compliant)
  \o "\nNon-compliant files: " \o ToString(non_compliant)

\* No report file on disk.
NoReportFile ==
  [written |-> FALSE, total |-> 0, compliant |-> 0, non_compliant |-> 0,
   entries |-> <<>>]

\* No process_audio call has returned in the running remediation loop.
NoRemediation ==
  [input |-> NoPath, success |-> FALSE, fixes |-> <<>>, message |-> "",
   output_path |-> NoPath, metadata |-> "not called"]

(***************************************************************************)
(* State.                                                                  *)
(***************************************************************************)
VARIABLES
  pc,                     \* position of main()
  pass,                   \* 0 before the first process_files call, then 1, 2
  directory,              \* the files of the directory the user named
  output_files,           \* the files the encoder wrote to the output directory
  audio_files,            \* self.audio_files
  reports,                \* self.reports
  target_channel_format,  \* self.target_channel_format ("None" until set)
  output_dir,             \* self.output_dir ("None" until set)
  processed_files,        \* processed_files of process_all_files
  idx,                    \* position of the running for loop in audio_files
  encoder_calls,          \* the ffmpeg invocations so far, with exit status
  report_file,            \* audiobook_analysis_report.txt
  console,                \* the last message printed
  faults,                 \* failed or unparseable probe calls so far
  last_remediation        \* what the last process_audio call of the running
                          \* remediation loop returned

vars == <<pc, pass, directory, output_files, audio_files, reports,
          target_channel_format, output_dir, processed_files, idx,
          encoder_calls, report_file, console, faults, last_remediation>>

Init ==
  /\ pc = "get_input_directory"
  /\ pass = 0
  /\ directory = {}
  /\ output_files = {}
  /\ audio_files = <<>>
  /\ reports = <<>>
  /\ target_channel_format = "None"
  /\ output_dir = "None"
  /\ processed_files = <<>>
  /\ idx = 0
  /\ encoder_calls = <<>>
  /\ report_file = NoReportFile
  /\ console = ""
  /\ faults = 0
  /\ last_remediation = NoRemediation

(***************************************************************************)
(* get_input_directory: one round of its loop per step.                    *)
(***************************************************************************)
Mp3Files(D) == { f \in D : f.ext = "mp3" }
WavFiles(D) == { f \in D : f.ext = "wav" }

\* all_audio_files = mp3_files + wav_files, each glob in any listing order.
GlobAudioFiles(D) ==
  { PathsOf("in", m) \o PathsOf("in", w) :
      m \in Listings(Mp3Files(D)), w \in Listings(WavFiles(D)) }

\* The user names something that is not a directory.
PromptNoDirectory ==
  /\ pc = "get_input_directory"
  /\ console' = MsgNoDirectory
  /\ UNCHANGED <<last_remediation, pc, pass, directory, output_files, audio_files, reports,
                 target_channel_format, output_dir, processed_files, idx,
                 encoder_calls, report_file, faults>>

\* PromptNoFiles with get_input_directory returning the empty directory.
PromptNoFiles_Proceeds ==
  /\ pc = "get_input_directory"
  /\ console' = MsgNoFilesFound
  /\ pc' = "collect_metadata"
  /\ UNCHANGED <<last_remediation, pass, directory, output_files, audio_files, reports,
                 target_channel_format, output_dir, processed_files, idx,
                 encoder_calls, report_file, faults>>

\* The user names a directory without MP3 or WAV files.
PromptNoFiles ==
  /\ pc = "get_input_directory"
  /\ \E D \in Directories :
       /\ D = {}
       /\ console' = MsgNoFilesFound
  /\ UNCHANGED <<last_remediation, pc, pass, directory, output_files, audio_files, reports,
                 target_channel_format, output_dir, processed_files, idx,
                 encoder_calls, report_file, faults>>

\* The user names a directory with audio files.
PromptFound ==
  /\ pc = "get_input_directory"
  /\ \E D \in Directories :
       /\ D # {}
       /\ directory' = D
       /\ \E files \in GlobAudioFiles(D) : audio_files' = files
  /\ console' = "Found audio files"
  /\ pc' = "collect_metadata"
  /\ UNCHANGED <<last_remediation, pass, output_files, reports, target_channel_format,
                 output_dir, processed_files, idx, encoder_calls,
                 report_file, faults>>

(***************************************************************************)
(* collect_metadata, then main() calls process_files.                      *)
(***************************************************************************)
CollectMetadata ==
  /\ pc = "collect_metadata"
  /\ pc' = "process_files"
  /\ pass' = 1
  /\ console' = "Metadata collection completed."
  /\ UNCHANGED <<last_remediation, directory, output_files, audio_files, reports,
                 target_channel_format, output_dir, processed_files, idx,
                 encoder_calls, report_file, faults>>

(***************************************************************************)
(* process_files.                                                          *)
(***************************************************************************)
\* The value of self.target_channel_format after
\* determine_target_channel_format, given the layout probed for the file.
determine_target_channel_format(files, old, layout) ==
  IF files = <<>> THEN old ELSE layout

\* AfterProcessFiles with main() going from the analysis to the report.
AfterProcessFiles_SkipRemediation(p) == "generate_report"

\* Where control goes when process_files returns.
AfterProcessFiles(p) ==
  IF p = 1 THEN "process_all_files" ELSE "generate_report"

\* The head of process_files: the empty check and the channel policy.
ProcessFilesBegin ==
  /\ pc = "process_files"
  /\ IF audio_files = <<>>
     THEN /\ console' = "No audio files to process."
          /\ pc' = AfterProcessFiles(pass)
          /\ UNCHANGED <<target_channel_format, idx, faults>>
     ELSE \E c \in ChannelOutcomes :
            /\ faults + ChannelFault(c) <= MaxProbeFaults
            /\ faults' = faults + ChannelFault(c)
            /\ target_channel_format' =
                 determine_target_channel_format(audio_files,
                    target_channel_format,
                    get_audio_channel_format(
                       FileAt(audio_files[1], directory, output_files), c))
            /\ console' = "Target channel format determined"
            /\ idx' = 1
            /\ pc' = "analyze"
  /\ UNCHANGED <<last_remediation, pass, directory, output_files, audio_files, reports,
                 output_dir, processed_files, encoder_calls, report_file>>

\* The probe calls analyze_audio_file makes that fail or print no number.
AnalyzeFaults(d, b, s, c) ==
  IF ProbeFault(d) = 1 THEN 1
  ELSE IF b.rc # 0 THEN 1
  ELSE ProbeFault(b) +
       (IF s.rc # 0 THEN 1 ELSE ProbeFault(s) + ChannelFault(c))

\* Loop body, first half: results = analyze_audio_file(file_path);
\* self.reports[file_path] = results.
AnalyzeFile ==
  /\ pc = "analyze"
  /\ LET path == audio_files[idx]
         f == FileAt(path, directory, output_files)
     IN  \E d \in ProbeOutcomes(f.seconds), b \in ProbeOutcomes(f.bps),
            s \in ProbeOutcomes(f.hz), c \in ChannelOutcomes :
           /\ faults + AnalyzeFaults(d, b, s, c) <= MaxProbeFaults
           /\ faults' = faults + AnalyzeFaults(d, b, s, c)
           /\ reports' = DictSet(reports, path,
                analyze_audio_file(path, d, b, s,
                                   get_audio_channel_format(f, c)))
  /\ pc' = "channel_check"
  /\ console' = "Analyzing"
  /\ UNCHANGED <<last_remediation, pass, directory, output_files, audio_files,
                 target_channel_format, output_dir, processed_files, idx,
                 encoder_calls, report_file>>

\* The channel-layout check on the stored results.
CheckChannelLayout(results, current, target) ==
  IF target # "None" /\ current # target
  THEN AddIssue(results, MsgChannel(current, target))
  ELSE results

\* Loop body, second half, and the step of the loop.
ChannelCheck ==
  /\ pc = "channel_check"
  /\ LET path == audio_files[idx]
         f == FileAt(path, directory, output_files)
     IN  \E c \in ChannelOutcomes :
           /\ faults + ChannelFault(c) <= MaxProbeFaults
           /\ faults' = faults + ChannelFault(c)
           /\ reports' = DictSet(reports, path,
                CheckChannelLayout(DictGet(reports, path),
                   get_audio_channel_format(f, c), target_channel_format))
  /\ idx' = idx + 1
  /\ pc' = IF idx = Len(audio_files) THEN "summary" ELSE "analyze"
  /\ UNCHANGED <<last_remediation, pass, directory, output_files, audio_files,
                 target_channel_format, output_dir, processed_files,
                 encoder_calls, report_file, console>>

\* str.lower() of a text, by halves.
RECURSIVE LowerRange(_, _, _)
LowerRange(s, i, j) ==
  IF i > j THEN ""
  ELSE IF i = j THEN Lower(SubSeq(s, i, i))
  ELSE LET m == (i + j) \div 2
       IN  LowerRange(s, i, m) \o LowerRange(s, m + 1, j)

lower(s) == LowerRange(s, 1, Len(s))

\* Python's  term in s  on texts.
TextContains(s, term) ==
  \E k \in 1..(Len(s) - Len(term) + 1) :
     SubSeq(s, k, k + Len(term) - 1) = term

Categories ==
  <<"audio_level", "peak_level", "noise_floor", "room_tone", "format",
    "duration", "filename">>

\* The if/elif chain over issue.lower(): the category whose counter the issue
\* increments, "" when no branch is taken.
issue_category(issue) ==
  LET l == lower(issue)
  IN  IF \E term \in {"rms", "volume", "levels", "normalize"} :
            TextContains(l, term)
      THEN "audio_level"
      ELSE IF TextContains(l, "peak") THEN "peak_level"
      ELSE IF TextContains(l, "noise floor") THEN "noise_floor"
      ELSE IF TextContains(l, "room tone") \/ TextContains(l, "silence")
      THEN "room_tone"
      ELSE IF \E term \in {"bitrate", "sample rate", "cbr", "channels", "wav"} :
                 TextContains(l, term)
      THEN "format"
      ELSE IF TextContains(l, "duration") \/ TextContains(l, "minutes")
      THEN "duration"
      ELSE IF TextContains(l, "filename") \/ TextContains(l, "chapter")
      THEN "filename"
      ELSE ""

\* The issues the histogram loop visits: those of the non-compliant reports,
\* in dictionary order.
RECURSIVE NonCompliantIssues(_)
NonCompliantIssues(R) ==
  IF R = <<>> THEN <<>>
  ELSE (IF Head(R).results.compliant THEN <<>> ELSE Head(R).results.issues)
       \o NonCompliantIssues(Tail(R))

\* issue_categories after the histogram loop.
issue_categories(R) ==
  LET cats == [k \in DOMAIN NonCompliantIssues(R) |->
                 issue_category(NonCompliantIssues(R)[k])]
  IN  [c \in Range(Categories) |->
         Cardinality({k \in DOMAIN cats : cats[k] = c})]

\* The analysis summary process_files prints, and its return.
Summary ==
  /\ pc = "summary"
  /\ console' = SummaryText(Len(reports), compliant_count(reports),
                            non_compliant_count(reports))
  /\ pc' = AfterProcessFiles(pass)
  /\ UNCHANGED <<last_remediation, pass, directory, output_files, audio_files, reports,
                 target_channel_format, output_dir, processed_files, idx,
                 encoder_calls, report_file, faults>>

(***************************************************************************)
(* process_audio and process_all_files.                                    *)
(***************************************************************************)
\* output_path: the file name with a .wav extension replaced by .mp3, in
\* the output directory.
OutputPath(path) == [dir |-> "out", stem |-> path.stem, ext |-> "mp3"]

\* channel_arg of the ffmpeg command, as a channel count.
ChannelArg(target) == IF target = "mono" THEN 1 ELSE 2

\* The file a successful ffmpeg run leaves at output_path: MP3 with the
\* channel layout, bit rate and sample rate of the command line and the
\* length of the input (libmp3lame writes two channels as joint stereo).
EncodedFile(f, target) ==
  [stem |-> f.stem, ext |-> "mp3",
   channels |-> ChannelArg(target),
   mode |-> IF ChannelArg(target) = 1 THEN "Mono" ELSE "Joint stereo",
   seconds |-> f.seconds, bps |-> min_bitrate * 1000, hz |-> sample_rate]

\* The output directory after a file is written to it (ffmpeg -y replaces
\* a file of the same name).
WriteFile(files, f) ==
  { g \in files : ~(g.stem = f.stem /\ g.ext = f.ext) } \cup {f}

MsgNormalized == "Normalized audio levels to meet Audible requirements"

\* IssuesFixed without the normalization entry.
IssuesFixed_NoNormalization(path, current, target) ==
  (IF path.ext = "wav" THEN <<"Converted from WAV to MP3 format">> ELSE <<>>)
  \o (IF target # "None" /\ current # target
      THEN <<"Converted from " \o current \o " to " \o target>> ELSE <<>>)

\* issues_fixed of process_audio on a successful encode.
IssuesFixed(path, current, target) ==
  (IF path.ext = "wav" THEN <<"Converted from WAV to MP3 format">> ELSE <<>>)
  \o (IF target # "None" /\ current # target
      THEN <<"Converted from " \o current \o " to " \o target>> ELSE <<>>)
  \o <<MsgNormalized>>

\* "; ".join(issues_fixed)
RECURSIVE JoinFixes(_)
JoinFixes(fixes) ==
  IF fixes = <<>> THEN ""
  ELSE IF Len(fixes) = 1 THEN fixes[1]
  ELSE fixes[1] \o "; " \o JoinFixes(Tail(fixes))

\* The message process_audio returns with a successful encode.
SuccessMessage(fixes) ==
  IF fixes # <<>>
  THEN "Processed audio: " \o JoinFixes(fixes)
  ELSE "Audio meets requirements, no processing needed"

\* What happens to the tag write of apply_metadata.
TagOutcomes == {"saved", "error"}

\* apply_metadata: True when the tag was saved, False when eyed3 raised.
apply_metadata(t) == t = "saved"

\* process_audio with a failed tag write turned into a failed remediation.
process_audio_TagFailureFails(path, current, target, rc, tagged) ==
  IF rc # 0 \/ ~tagged
  THEN [success |-> FALSE, fixes |-> <<>>,
        message |-> "Error running ffmpeg: stderr", output_path |-> NoPath]
  ELSE [success |-> TRUE, fixes |-> IssuesFixed(path, current, target),
        message |-> SuccessMessage(IssuesFixed(path, current, target)),
        output_path |-> OutputPath(path)]

\* The tuple process_audio returns, given the exit status of ffmpeg and,
\* after a successful encode, what apply_metadata returned (which
\* process_audio does not look at).
process_audio(path, current, target, rc, tagged) ==
  IF rc # 0
  THEN [success |-> FALSE, fixes |-> <<>>,
        message |-> "Error running ffmpeg: stderr", output_path |-> NoPath]
  ELSE [success |-> TRUE, fixes |-> IssuesFixed(path, current, target),
        message |-> SuccessMessage(IssuesFixed(path, current, target)),
        output_path |-> OutputPath(path)]

\* The head of process_all_files: the empty check, the output directory.
ProcessAllBegin ==
  /\ pc = "process_all_files"
  /\ IF audio_files = <<>>
     THEN /\ console' = "No audio files to process."
          /\ pc' = "generate_report"
          /\ UNCHANGED <<output_dir, processed_files, idx>>
     ELSE /\ output_dir' = "_master"
          /\ processed_files' = <<>>
          /\ idx' = 1
          /\ console' = "Processing Audio Files"
          /\ pc' = "process_audio"
  /\ UNCHANGED <<last_remediation, pass, directory, output_files, audio_files, reports,
                 target_channel_format, encoder_calls, report_file, faults>>

\* AfterProcessAudio with the loop left at the first failed encode.
AfterProcessAudio_StopOnFailure(k, n, success) ==
  IF k = n \/ ~success THEN "reanalyze" ELSE "process_audio"

\* Where the remediation loop goes after the file at position k.
AfterProcessAudio(k, n, success) ==
  IF k = n THEN "reanalyze" ELSE "process_audio"

\* One round of the remediation loop: process_audio on the next file and
\* the bookkeeping of its result.
ProcessAudio ==
  /\ pc = "process_audio"
  /\ LET path == audio_files[idx]
         f == FileAt(path, directory, output_files)
     IN  \E c \in ChannelOutcomes, rc \in {0, 1}, t \in TagOutcomes :
           LET ret == process_audio(path, get_audio_channel_format(f, c),
                                    target_channel_format, rc,
                                    apply_metadata(t))
           IN  /\ rc # 0 => t = "saved"
               /\ faults + ChannelFault(c) <= MaxProbeFaults
               /\ faults' = faults + ChannelFault(c)
               /\ encoder_calls' = Append(encoder_calls,
                     [input |-> path,
                      channel_arg |-> ChannelArg(target_channel_format),
                      output |-> OutputPath(path), rc |-> rc])
               /\ output_files' =
                    IF rc = 0
                    THEN WriteFile(output_files,
                                   EncodedFile(f, target_channel_format))
                    ELSE output_files
               /\ processed_files' =
                    IF ret.success /\ ret.output_path # NoPath
                    THEN Append(processed_files, ret.output_path)
                    ELSE processed_files
               /\ last_remediation' =
                    [input |-> path, success |-> ret.success,
                     fixes |-> ret.fixes, message |-> ret.message,
                     output_path |-> ret.output_path,
                     metadata |-> IF rc # 0 THEN "not called"
                                  ELSE IF apply_metadata(t) THEN "saved"
                                  ELSE "failed"]
               /\ console' = ret.message
               /\ pc' = AfterProcessAudio(idx, Len(audio_files), ret.success)
  /\ idx' = idx + 1
  /\ UNCHANGED <<pass, directory, audio_files, reports,
                 target_channel_format, output_dir, report_file>>

\* The tail of process_all_files: the processed files are analyzed again.
Reanalyze ==
  /\ pc = "reanalyze"
  /\ IF processed_files # <<>>
     THEN /\ audio_files' = processed_files
          /\ reports' = <<>>
          /\ pass' = 2
          /\ console' = "Re-analyzing processed files to verify compliance..."
          /\ pc' = "process_files"
     ELSE /\ pc' = "generate_report"
          /\ console' = "Processed 0 files"
          /\ UNCHANGED <<audio_files, reports, pass>>
  /\ last_remediation' = NoRemediation
  /\ UNCHANGED <<directory, output_files, target_channel_format, output_dir,
                 processed_files, idx, encoder_calls, report_file, faults>>

(***************************************************************************)
(* generate_report and the end of main().                                  *)
(***************************************************************************)
GenerateReport ==
  /\ pc = "generate_report"
  /\ IF reports = <<>>
     THEN /\ console' = MsgNotAnalyzed
          /\ UNCHANGED report_file
     ELSE /\ report_file' = [written |-> TRUE,
                              total |-> Len(reports),
                              compliant |-> compliant_count(reports),
                              non_compliant |-> non_compliant_count(reports),
                              entries |-> reports]
          /\ console' = "Detailed analysis report saved"
  /\ pc' = "visualize"
  /\ UNCHANGED <<last_remediation, pass, directory, output_files, audio_files, reports,
                 target_channel_format, output_dir, processed_files, idx,
                 encoder_calls, faults>>

\* The visualization question and the closing messages.
Finish ==
  /\ pc = "visualize"
  /\ pc' = "done"
  /\ console' = "Processing complete!"
  /\ UNCHANGED <<last_remediation, pass, directory, output_files, audio_files, reports,
                 target_channel_format, output_dir, processed_files, idx,
                 encoder_calls, report_file, faults>>

Next ==
  \/ PromptNoDirectory
  \/ PromptNoFiles
  \/ PromptFound
  \/ CollectMetadata
  \/ ProcessFilesBegin
  \/ AnalyzeFile
  \/ ChannelCheck
  \/ Summary
  \/ ProcessAllBegin
  \/ ProcessAudio
  \/ Reanalyze
  \/ GenerateReport
  \/ Finish

Spec == Init /\ [][Next]_vars

(***************************************************************************)
(* Properties.                                                             *)
(***************************************************************************)
Results(k) == reports[k].results

ChannelIssues ==
  { MsgChannel(a, b) : a \in {"mono", "stereo"}, b \in {"mono", "stereo"} }

\* C1: every report in self.reports has compliant true exactly when its
\* issue list is empty, in both passes and also after process_files has
\* appended a channel-layout issue to the stored report.
C1_CompliantIffNoIssues ==
  \A k \in DOMAIN reports :
     Results(k).compliant = (Results(k).issues = <<>>)

\* A stored report to which process_files appended a channel-layout issue.
C1_Witness ==
  \E k \in DOMAIN reports :
     /\ Len(Results(k).issues) >= 2
     /\ Results(k).issues[Len(Results(k).issues)] \in ChannelIssues
     /\ ~Results(k).compliant

\* C2: once self.target_channel_format is set it keeps its value for the
\* rest of the run: through the analysis of further files, the remediation
\* and the re-analysis of the remediated files.
C2_PolicyNeverChanges ==
  [][target_channel_format # "None"
       => target_channel_format' = target_channel_format]_vars

\* C3: a failed probe never aborts the evaluation of a file: every stored
\* report records all four probed attributes (a sentinel for a failed one),
\* the WAV issue of a WAV file and the normalization flag, and none records
\* an aborted analysis.
C3_ProbeFailureNeverAborts ==
  \A k \in DOMAIN reports :
     /\ {"duration_minutes", "bitrate", "sample_rate", "channels"}
           \subseteq Results(k).keys
     /\ reports[k].path.ext = "wav" => MsgWav \in Range(Results(k).issues)
     /\ MsgNormalize \in Range(Results(k).issues)

\* The input files whose ffmpeg run exited non-zero.
FailedInputs ==
  { encoder_calls[c].input : c \in { c \in DOMAIN encoder_calls :
                                       encoder_calls[c].rc # 0 } }

\* C4: the report written after remediation has no entry for a file whose
\* encode exited non-zero, also when every encode failed.
C4_FailedFilesAbsentFromReport ==
  report_file.written =>
     \A k \in DOMAIN report_file.entries :
        report_file.entries[k].path \notin FailedInputs

\* The output paths of the successful ffmpeg runs, in call order.
SuccessOutputs(calls) ==
  LET ok == SelectSeq(calls, LAMBDA c : c.rc = 0)
  IN  [k \in DOMAIN ok |-> ok[k].output]

Inputs(calls) == [k \in DOMAIN calls |-> calls[k].input]

\* C5: an encode failure stops nothing but that file: the remediation loop
\* hands every file of the batch to ffmpeg exactly once and in list order,
\* whichever earlier encodes failed, and the re-analysis pass runs on
\* exactly the outputs of the successful encodes, in the same order.
C5_EncodeFailureIsLocal ==
  /\ \A a, b \in DOMAIN encoder_calls :
        a # b => encoder_calls[a].input # encoder_calls[b].input
  /\ pc = "process_audio" =>
        Inputs(encoder_calls) = SubSeq(audio_files, 1, idx - 1)
  /\ pc = "reanalyze" => Inputs(encoder_calls) = audio_files
  /\ pc \in {"process_audio", "reanalyze"} =>
        processed_files = SuccessOutputs(encoder_calls)
  /\ pass = 2 =>
        /\ audio_files = SuccessOutputs(encoder_calls)
        /\ { encoder_calls[c].input : c \in DOMAIN encoder_calls }
              = { PathOf("in", f) : f \in directory }

\* The first encode failed, the second was still run and succeeded, and its
\* output alone entered the re-analysis pass.
C5_Witness ==
  /\ pass = 2
  /\ Len(encoder_calls) = 2
  /\ encoder_calls[1].rc # 0
  /\ encoder_calls[2].rc = 0
  /\ audio_files = <<encoder_calls[2].output>>

\* C6: every stored report, of either pass and whatever the probes gave,
\* holds the normalization issue and is non-compliant.
C6_EveryFileFlaggedForNormalization ==
  \A k \in DOMAIN reports :
     /\ ~Results(k).compliant
     /\ \E j \in DOMAIN Results(k).issues : Results(k).issues[j] = MsgNormalize

\* C7: for the directory of 01_Chapter_1.wav (stereo) and 02_Chapter_2.mp3
\* (mono), with every probe answering, the first analysis ends with the
\* policy stereo, a mono-to-stereo issue for 02_Chapter_2.mp3, no channel
\* issue for 01_Chapter_1.wav, and both files non-compliant.
C7_ScenarioPolicyIsStereo ==
  (/\ directory = {Ch1Wav, Ch2Mp3}
   /\ pass = 1
   /\ pc = "summary"
   /\ faults = 0)
  => /\ target_channel_format = "stereo"
     /\ MsgChannel("mono", "stereo")
          \in Range(DictGet(reports, PathOf("in", Ch2Mp3)).issues)
     /\ Range(DictGet(reports, PathOf("in", Ch1Wav)).issues)
          \cap ChannelIssues = {}
     /\ ~DictGet(reports, PathOf("in", Ch1Wav)).compliant
     /\ ~DictGet(reports, PathOf("in", Ch2Mp3)).compliant

\* The stage of the pipeline the run is in.
Stage ==
  CASE pc \in {"get_input_directory", "collect_metadata"} -> "Discover"
    [] pc = "process_files" -> "EstablishChannelPolicy"
    [] pc \in {"analyze", "channel_check", "summary"} ->
         IF pass = 1 THEN "AnalyzePass1" ELSE "AnalyzePass2"
    [] pc \in {"process_all_files", "process_audio", "reanalyze"} ->
         "RemediateAll"
    [] pc = "generate_report" -> "Report"
    [] OTHER -> "Done"

\* The position of a stage in the order the specification gives.
SpecRank(stage) ==
  CASE stage = "Discover" -> 1
    [] stage = "AnalyzePass1" -> 2
    [] stage = "EstablishChannelPolicy" -> 3
    [] stage = "RemediateAll" -> 4
    [] stage = "AnalyzePass2" -> 5
    [] stage = "Report" -> 6
    [] OTHER -> 7

\* The position of a stage in the order main() runs them; the channel
\* policy is established at the head of each analysis pass.
CodeRank(stage, p) ==
  CASE stage = "Discover" -> 1
    [] stage = "EstablishChannelPolicy" -> IF p = 1 THEN 2 ELSE 5
    [] stage = "AnalyzePass1" -> 3
    [] stage = "RemediateAll" -> 4
    [] stage = "AnalyzePass2" -> 6
    [] stage = "Report" -> 7
    [] OTHER -> 8

C9_EmptyDiscoveryEndsRun ==
  console = MsgNoFilesFound => pc = "done"

\* C9 amended: when discovery finds no audio files the run prints a message
\* and asks for the directory again; nothing has been analyzed, encoded or
\* reported at that point.
C9_EmptyDiscoveryPromptsAgain ==
  console = MsgNoFilesFound =>
     /\ pc = "get_input_directory"
     /\ audio_files = <<>>
     /\ reports = <<>>
     /\ target_channel_format = "None"
     /\ encoder_calls = <<>>
     /\ output_files = {}
     /\ ~report_file.written

\* Discovery has just found no audio files.
C9_Witness ==
  /\ console = MsgNoFilesFound
  /\ pc = "get_input_directory"

\* The bit rates in kbps a report of this model can hold.
KbpsValues ==
  {0, min_bitrate} \cup { f.bps \div 1000 : f \in Catalogue }

\* C10: a report that holds a probed bitrate b (the stream bit rate in bps
\* integer-divided by 1000, or 0 if unparseable) holds the bitrate issue
\* exactly when b < 192, and no report holds a bitrate issue otherwise.
C10_BitrateIssueIffBelow192 ==
  \A k \in DOMAIN reports :
     LET r == Results(k)
         f == FileAt(reports[k].path, directory, output_files)
     IN  /\ "bitrate" \in r.keys =>
              /\ r.bitrate \in {0, f.bps \div 1000}
              /\ (MsgBitrate(r.bitrate) \in Range(r.issues)) <=> (r.bitrate < 192)
         /\ \A b \in KbpsValues :
              MsgBitrate(b) \in Range(r.issues) =>
                 "bitrate" \in r.keys /\ b = r.bitrate

\* One batch with a file probed at 191999 bps, which has the issue, and a
\* file probed at 192000 bps, which has none.
C10_Witness ==
  \E j, k \in DOMAIN reports :
     /\ "bitrate" \in Results(j).keys
     /\ Results(j).bitrate = 191
     /\ MsgBitrate(191) \in Range(Results(j).issues)
     /\ "bitrate" \in Results(k).keys
     /\ Results(k).bitrate = 192
     /\ MsgBitrate(192) \notin Range(Results(k).issues)

(***************************************************************************)
(* The filename checks over all short stems: a run that has discovered a   *)
(* directory with one audio file of any stem over StemAlphabet, at the     *)
(* head of the analysis loop of the first pass.                            *)
(***************************************************************************)
\* Longest stem drawn.
MaxStemLen == 3

\* A lower-case and an upper-case letter that spell "ch", a digit, a
\* character outside the class, a separator of the class, and a newline.
StemAlphabet == {"c", "H", "7", "#", "-", "\n"}

Stems == UNION { [1..n -> StemAlphabet] : n \in 1..MaxStemLen }

\* An audio file of the given name as the probes report it.
StemFile(stem, ext) ==
  [stem |-> stem, ext |-> ext, channels |-> 2, mode |-> "Stereo",
   seconds |-> 600, bps |-> 192000, hz |-> 44100]

FilenameInit ==
  /\ pc = "analyze"
  /\ pass = 1
  /\ \E stem \in Stems, ext \in {"mp3", "wav"} :
       /\ directory = {StemFile(stem, ext)}
       /\ audio_files = <<PathOf("in", StemFile(stem, ext))>>
  /\ output_files = {}
  /\ reports = <<>>
  /\ target_channel_format \in {"mono", "stereo"}
  /\ output_dir = "None"
  /\ processed_files = <<>>
  /\ idx = 1
  /\ encoder_calls = <<>>
  /\ report_file = NoReportFile
  /\ console = "Target channel format determined"
  /\ faults = 0
  /\ last_remediation = NoRemediation

FilenameNext ==
  \/ AnalyzeFile
  \/ ChannelCheck

FilenameSpec == FilenameInit /\ [][FilenameNext]_vars

\* The stem consists of one or more characters of [A-Za-z0-9_- ] and of
\* nothing else.
FullyMatches(stem) ==
  /\ Len(stem) >= 1
  /\ \A k \in DOMAIN stem : AllowedChar(stem[k])

\* C11: in every report the special-character issue is present exactly when
\* the stem does not fully match [A-Za-z0-9_- ]+, and the chapter/section
\* issue exactly when the stem holds no keyword (in any case) and no digit,
\* whatever the probes of the file gave.
C11_FilenameVerdictFromStemOnly ==
  \A k \in DOMAIN reports :
     LET stem == reports[k].path.stem
         issues == Range(Results(k).issues)
     IN  /\ (MsgSpecialChars \in issues) <=> ~FullyMatches(stem)
         /\ (MsgNoChapter \in issues)
              <=> (~has_chapter_indicator(stem) /\ ~HasDigit(stem))

\* The same verdict on the stems without a newline.
FilenameVerdictWithoutNewline ==
  \A k \in DOMAIN reports :
     LET stem == reports[k].path.stem
         issues == Range(Results(k).issues)
     IN  "\n" \notin Range(stem) =>
           /\ (MsgSpecialChars \in issues) <=> ~FullyMatches(stem)
           /\ (MsgNoChapter \in issues)
                <=> (~has_chapter_indicator(stem) /\ ~HasDigit(stem))

\* The last ffmpeg invocation.
LastCall == encoder_calls[Len(encoder_calls)]

\* A process_audio call of the running remediation loop has returned.
Remediated ==
  /\ pc \in {"process_audio", "reanalyze"}
  /\ last_remediation.input # NoPath

\* C12: whenever ffmpeg exits zero, process_audio returns success with the
\* output path and the output joins the files of the re-analysis pass,
\* whether the tag write of apply_metadata succeeded or failed.
C12_TagFailureKeepsRemediation ==
  /\ (Remediated /\ LastCall.rc = 0) =>
        /\ last_remediation.metadata \in {"saved", "failed"}
        /\ last_remediation.success
        /\ last_remediation.output_path = LastCall.output
        /\ processed_files # <<>>
        /\ processed_files[Len(processed_files)] = LastCall.output
  /\ (pc = "process_files" /\ pass = 2) =>
        audio_files = SuccessOutputs(encoder_calls)

\* The tag write failed and the encoded output still counts as processed.
C12_Witness ==
  /\ Remediated
  /\ last_remediation.metadata = "failed"
  /\ last_remediation.success
  /\ processed_files[Len(processed_files)] = last_remediation.output_path

\* C13: the remediation loop gives every file it has passed to ffmpeg,
\* whatever the report of the file says, and every successful encode
\* records the level-normalization fix, so that no call returns "no
\* processing needed".
C13_RemediationNeverNoOp ==
  /\ pc \in {"process_audio", "reanalyze"} =>
        /\ Len(encoder_calls) = idx - 1
        /\ \A k \in 1..(idx - 1) :
              /\ HasKey(reports, audio_files[k])
              /\ encoder_calls[k].input = audio_files[k]
  /\ Remediated =>
        /\ last_remediation.input = LastCall.input
        /\ last_remediation.success = (LastCall.rc = 0)
        /\ last_remediation.success =>
              /\ last_remediation.fixes # <<>>
              /\ last_remediation.fixes[Len(last_remediation.fixes)]
                   = MsgNormalized
              /\ last_remediation.message
                   # "Audio meets requirements, no processing needed"

\* A file that needs neither a format nor a channel conversion was encoded
\* and the normalization is its only fix.
C13_Witness ==
  /\ Remediated
  /\ last_remediation.success
  /\ last_remediation.fixes = <<MsgNormalized>>
  /\ last_remediation.message = "Processed audio: " \o MsgNormalized

RECURSIVE SumCounts(_, _)
SumCounts(counts, k) ==
  IF k = 0 THEN 0 ELSE counts[Categories[k]] + SumCounts(counts, k - 1)

\* C14: at the batch summary every issue string of a non-compliant report
\* has incremented one histogram category, so that the category counts sum
\* to the number of issue strings of the non-compliant reports.  Stated for
\* the runs in which every probe answered: their reports hold only the
\* issues of the checks and of the channel-layout comparison.
C14_HistogramCountsEveryIssue ==
  (pc = "summary" /\ faults = 0) =>
     SumCounts(issue_categories(reports), Len(Categories))
       = Len(NonCompliantIssues(reports))

\* C15: the report collection holds one entry per file of its pass: the
\* number of discovered files at the summary of pass 1, the number of files
\* whose encode succeeded at the summary of pass 2.
C15_OneReportPerFile ==
  /\ (pc = "summary" /\ pass = 1) => Len(reports) = Cardinality(directory)
  /\ (pc = "summary" /\ pass = 2) =>
        Len(reports) = Len(SuccessOutputs(encoder_calls))

\* The text starts with the given words.
StartsWith(text, words) ==
  /\ Len(text) >= Len(words)
  /\ SubSeq(text, 1, Len(words)) = words

\* The position in the check order of the check that wrote an issue: 1
\* filename characters, 2 chapter or section marker, 3 duration, 4 bit rate,
\* 5 sample rate, 6 WAV container, 7 normalization flag, 8 channel layout;
\* 0 for the text of the except clause.
CheckRank(issue) ==
  IF issue = MsgSpecialChars THEN 1
  ELSE IF issue = MsgNoChapter THEN 2
  ELSE IF StartsWith(issue, "File duration (") THEN 3
  ELSE IF StartsWith(issue, "Bitrate is ") THEN 4
  ELSE IF StartsWith(issue, "Sample rate is ") THEN 5
  ELSE IF issue = MsgWav THEN 6
  ELSE IF issue = MsgNormalize THEN 7
  ELSE IF StartsWith(issue, "Channel format: ") THEN 8
  ELSE 0

\* C16: in every report the issues stand in the order of their checks:
\* filename characters, chapter marker, duration, bit rate, sample rate, WAV
\* container, normalization flag, channel layout.
C16_IssuesInCheckOrder ==
  \A k \in DOMAIN reports :
     LET issues == Results(k).issues
     IN  \A i, j \in DOMAIN issues :
            /\ (i < j /\ CheckRank(issues[i]) > 0 /\ CheckRank(issues[j]) > 0)
                  => CheckRank(issues[i]) < CheckRank(issues[j])
            \* the text of the except clause ends the checks of the try
            \* block: only the channel-layout issue can follow it
            /\ (i < j /\ CheckRank(issues[i]) = 0)
                  => CheckRank(issues[j]) = 8
            /\ (i < j /\ CheckRank(issues[j]) = 0)
                  => CheckRank(issues[i]) \in 1..5

\* A report with an issue of the first check, the normalization flag and
\* the channel-layout issue, which process_files appends last.
C16_Witness ==
  \E k \in DOMAIN reports :
     LET issues == Results(k).issues
     IN  /\ Len(issues) >= 4
         /\ CheckRank(issues[1]) = 1
         /\ CheckRank(issues[Len(issues) - 1]) = 7
         /\ CheckRank(issues[Len(issues)]) = 8

\* C17: no report is ever compliant: the compliant count of the analysis
\* summary and of the report file is 0 and the non-compliant count is the
\* number of reports, in pass 1 and in the re-analysis of the encoded files.
C17_NoFileEverCompliant ==
  /\ \A k \in DOMAIN reports : ~Results(k).compliant
  /\ compliant_count(reports) = 0
  /\ non_compliant_count(reports) = Len(reports)
  /\ StartsWith(console, "Total files analyzed: ") =>
        console = SummaryText(Len(reports), 0, Len(reports))
  /\ report_file.written =>
        /\ report_file.compliant = 0
        /\ report_file.non_compliant = report_file.total
        /\ report_file.total = Len(report_file.entries)
        /\ \A k \in DOMAIN report_file.entries :
              ~report_file.entries[k].results.compliant

\* Every file was encoded, every probe of the re-analysis answered, and the
\* report file counts the encoded files, one of which has the normalization
\* flag as its only issue, as non-compliant.
C17_Witness ==
  /\ pc = "done"
  /\ pass = 2
  /\ faults = 0
  /\ Len(encoder_calls) = Cardinality(directory)
  /\ \A k \in DOMAIN encoder_calls : encoder_calls[k].rc = 0
  /\ report_file.written
  /\ report_file.total >= 1
  /\ report_file.non_compliant = report_file.total
  /\ \E k \in DOMAIN report_file.entries :
        report_file.entries[k].results.issues = <<MsgNormalize>>

====
